---- MODULE Spec2Model ----
(***************************************************************************)
(* libcork byte-order.h: endianness detection by the preprocessor and the  *)
(* byte-swapping macros for 16-, 32- and 64-bit unsigned integers.         *)
(*                                                                         *)
(* An integer value is modelled with its C type: a record [w, b] where w   *)
(* is the width of the type in bits and b is the set of positions of the   *)
(* bits that are 1 (bit 0 is the least significant).  The bitwise          *)
(* operators of C are then set operations, and a shift moves positions.    *)
(* int is taken to be 32 bits wide, as on the Linux and Mac OS X targets   *)
(* the header supports.                                                    *)
(***************************************************************************)
EXTENDS Integers, FiniteSets, Sequences, TLC

VARIABLES target, cpp, mem, last

vars == <<target, cpp, mem, last>>

(***************************************************************************)
(* Bounds of the model.                                                    *)
(***************************************************************************)
\* the operand takes every value with at most this many non-zero bytes
MaxSetBytes == 1

(***************************************************************************)
(* Typed values and the C operators the macros use.                        *)
(***************************************************************************)
TV(w, b) == [w |-> w, b |-> b]

Max(a, b) == IF a >= b THEN a ELSE b

\* integer promotion: a type narrower than int is promoted to int
Promote(w) == IF w < 32 THEN 32 ELSE w

\* usual arithmetic conversions: the common type of two operands
Common(u, v) == Max(Promote(u.w), Promote(v.w))

\* (uintN_t) u
CAST(n, u) == TV(n, u.b \cap (0 .. n - 1))

\* u & v
BAND(u, v) == TV(Common(u, v), u.b \cap v.b)

\* u | v
BOR(u, v) == TV(Common(u, v), u.b \cup v.b)

\* u >> k
SHR(u, k) == TV(Promote(u.w), {i - k : i \in {j \in u.b : j >= k}})

\* u << k, bits shifted out of the promoted type are lost
SHL(u, k) == TV(Promote(u.w), {i + k : i \in u.b} \cap (0 .. Promote(u.w) - 1))

BitAt(u, i) == IF i \in u.b THEN 1 ELSE 0

\* the carry into bit i of u + v: some lower bit generates a carry and
\* every bit between propagates it
CarryInto(u, v, i) ==
    IF \E j \in u.b \cap v.b :
           /\ j < i
           /\ \A k \in j + 1 .. i - 1 : k \in u.b \/ k \in v.b
    THEN 1 ELSE 0

\* u + v, modulo 2^w of the common type
ADD(u, v) ==
    TV(Common(u, v),
       {i \in 0 .. Common(u, v) - 1 :
            (BitAt(u, i) + BitAt(v, i) + CarryInto(u, v, i)) % 2 = 1})

\* the bits of byte lane i of a value, as positions 0..7
ByteOf(b, i) == {j \in 0 .. 7 : 8 * i + j \in b}

\* the bit set of a value written as its bytes, most significant first
FromBytes(s) ==
    UNION {{8 * (Len(s) - i) + j : j \in {k \in 0 .. 7 : (s[i] \div (2 ^ k)) % 2 = 1}}
              : i \in 1 .. Len(s)}

(***************************************************************************)
(* C expressions that can be written as a macro argument.                  *)
(*   var  : a                                                              *)
(*   shr  : a >> s                                                         *)
(*   add  : a + c                                                          *)
(*   cond : c ? a : d                                                      *)
(*   val  : a parenthesised expression whose value is v                    *)
(***************************************************************************)
Zero == TV(32, {})

EVar(a) == [k |-> "var", a |-> a, c |-> a, d |-> a, s |-> 0, v |-> Zero]
EShr(a, s) == [k |-> "shr", a |-> a, c |-> a, d |-> a, s |-> s, v |-> Zero]
EAdd(a, c) == [k |-> "add", a |-> a, c |-> c, d |-> a, s |-> 0, v |-> Zero]
ECond(c, a, d) == [k |-> "cond", a |-> a, c |-> c, d |-> d, s |-> 0, v |-> Zero]
EVal(v) == [k |-> "val", a |-> "x", c |-> "x", d |-> "x", s |-> 0, v |-> v]

\* the value of the expression e in memory m
Eval(e, m) ==
    CASE e.k = "var"  -> m[e.a]
      [] e.k = "shr"  -> SHR(m[e.a], e.s)
      [] e.k = "add"  -> ADD(m[e.a], m[e.c])
      [] e.k = "cond" -> TV(Common(m[e.a], m[e.d]),
                            IF m[e.c].b # {} THEN m[e.a].b ELSE m[e.d].b)
      [] e.k = "val"  -> e.v

\* the value of the text "(uintN_t) e" after macro substitution: the macro
\* parameter is not parenthesised, so the cast binds to the first operand
CastArg(n, e, m) ==
    CASE e.k = "var"  -> CAST(n, m[e.a])
      [] e.k = "shr"  -> SHR(CAST(n, m[e.a]), e.s)
      [] e.k = "add"  -> ADD(CAST(n, m[e.a]), m[e.c])
      [] e.k = "cond" -> TV(Common(m[e.a], m[e.d]),
                            IF CAST(n, m[e.c]).b # {} THEN m[e.a].b ELSE m[e.d].b)
      [] e.k = "val"  -> CAST(n, e.v)

(***************************************************************************)
(* Endianness detection (the preprocessor).                                *)
(***************************************************************************)
CORK_BIG_ENDIAN == 4321

CORK_LITTLE_ENDIAN == 1234

NoMacros == [name \in {} |-> 0]

\* an identifier that is not a macro evaluates to 0 in #if
CppVal(defs, name) == IF name \in DOMAIN defs THEN defs[name] ELSE 0

\* the platform sections: which CORK_HOST_ENDIANNESS, or #error
DetectHost(t) ==
    IF t.os = "linux"
    THEN IF t.byte_order = "big"
         THEN [error |-> FALSE, defs |-> ("CORK_HOST_ENDIANNESS" :> CORK_BIG_ENDIAN)]
         ELSE IF t.byte_order = "little"
         THEN [error |-> FALSE, defs |-> ("CORK_HOST_ENDIANNESS" :> CORK_LITTLE_ENDIAN)]
         ELSE [error |-> TRUE, defs |-> NoMacros]
    ELSE IF t.os = "macosx"
    THEN IF t.byte_order = "big"
         THEN [error |-> FALSE, defs |-> ("CORK_HOST_ENDIANNESS" :> CORK_BIG_ENDIAN)]
         ELSE IF t.byte_order = "little"
         THEN [error |-> FALSE, defs |-> ("CORK_HOST_ENDIANNESS" :> CORK_LITTLE_ENDIAN)]
         ELSE [error |-> TRUE, defs |-> NoMacros]
    ELSE [error |-> FALSE, defs |-> NoMacros]

\* CORK_OTHER_ENDIANNESS and the two name strings
DeriveOther(defs) ==
    IF CppVal(defs, "CORK_HOST_ENDIANNESS") = CORK_BIG_ENDIAN
    THEN [ints |-> defs @@ ("CORK_OTHER_ENDIANNESS" :> CORK_LITTLE_ENDIAN),
          strs |-> ("CORK_HOST_ENDIANNESS_NAME" :> "big") @@
                   ("CORK_OTHER_ENDIANNESS_NAME" :> "little")]
    ELSE IF CppVal(defs, "CORK_HOST_ENDIANNESS") = CORK_LITTLE_ENDIAN
    THEN [ints |-> defs @@ ("CORK_OTHER_ENDIANNESS" :> CORK_BIG_ENDIAN),
          strs |-> ("CORK_HOST_ENDIANNESS_NAME" :> "little") @@
                   ("CORK_OTHER_ENDIANNESS_NAME" :> "big")]
    ELSE [ints |-> defs, strs |-> NoMacros]

\* the result of preprocessing the header for build target t
Preprocess(t) ==
    IF DetectHost(t).error
    THEN [error |-> TRUE, ints |-> NoMacros, strs |-> NoMacros]
    ELSE [error |-> FALSE,
          ints |-> DeriveOther(DetectHost(t).defs).ints,
          strs |-> DeriveOther(DetectHost(t).defs).strs]

(***************************************************************************)
(* Unconditional swaps.                                                    *)
(***************************************************************************)
x_ff00u == TV(32, 8 .. 15)
x_00ffu == TV(32, 0 .. 7)

\* the low byte is moved two lanes up instead of one
CORK_SWAP_UINT16_WideShift(e, m) ==
    BOR(SHR(BAND(CastArg(16, e, m), x_ff00u), 8),
        SHL(BAND(CastArg(16, e, m), x_00ffu), 16))

CORK_SWAP_UINT16(e, m) ==
    BOR(SHR(BAND(CastArg(16, e, m), x_ff00u), 8),
        SHL(BAND(CastArg(16, e, m), x_00ffu), 8))

x_ff000000u == TV(32, 24 .. 31)
x_00ff0000u == TV(32, 16 .. 23)
x_0000ff00u == TV(32, 8 .. 15)
x_000000ffu == TV(32, 0 .. 7)

\* the two middle lanes are shifted the wrong way round
CORK_SWAP_UINT32_MiddleLanes(e, m) ==
    BOR(BOR(SHR(BAND(CastArg(32, e, m), x_ff000000u), 24),
            SHL(BAND(CastArg(32, e, m), x_00ff0000u), 8)),
        BOR(SHR(BAND(CastArg(32, e, m), x_0000ff00u), 8),
            SHL(BAND(CastArg(32, e, m), x_000000ffu), 24)))

CORK_SWAP_UINT32(e, m) ==
    BOR(BOR(SHR(BAND(CastArg(32, e, m), x_ff000000u), 24),
            SHR(BAND(CastArg(32, e, m), x_00ff0000u), 8)),
        BOR(SHL(BAND(CastArg(32, e, m), x_0000ff00u), 8),
            SHL(BAND(CastArg(32, e, m), x_000000ffu), 24)))

\* UINT64_C(0xff << 8*i)
Lane64(i) == TV(64, 8 * i .. 8 * i + 7)

\* the lowest lane is moved to lane 6 instead of lane 7
CORK_SWAP_UINT64_ShortShift(e, m) ==
    BOR(BOR(BOR(SHR(BAND(CastArg(64, e, m), Lane64(7)), 56),
                SHR(BAND(CastArg(64, e, m), Lane64(6)), 40)),
            BOR(SHR(BAND(CastArg(64, e, m), Lane64(5)), 24),
                SHR(BAND(CastArg(64, e, m), Lane64(4)), 8))),
        BOR(BOR(SHL(BAND(CastArg(64, e, m), Lane64(3)), 8),
                SHL(BAND(CastArg(64, e, m), Lane64(2)), 24)),
            BOR(SHL(BAND(CastArg(64, e, m), Lane64(1)), 40),
                SHL(BAND(CastArg(64, e, m), Lane64(0)), 48))))

CORK_SWAP_UINT64(e, m) ==
    BOR(BOR(BOR(SHR(BAND(CastArg(64, e, m), Lane64(7)), 56),
                SHR(BAND(CastArg(64, e, m), Lane64(6)), 40)),
            BOR(SHR(BAND(CastArg(64, e, m), Lane64(5)), 24),
                SHR(BAND(CastArg(64, e, m), Lane64(4)), 8))),
        BOR(BOR(SHL(BAND(CastArg(64, e, m), Lane64(3)), 8),
                SHL(BAND(CastArg(64, e, m), Lane64(2)), 24)),
            BOR(SHL(BAND(CastArg(64, e, m), Lane64(1)), 40),
                SHL(BAND(CastArg(64, e, m), Lane64(0)), 56))))

\* CORK_SWAP_UINTn for n in {16, 32, 64}
CORK_SWAP_UINT(n, e, m) ==
    CASE n = 16 -> CORK_SWAP_UINT16(e, m)
      [] n = 32 -> CORK_SWAP_UINT32(e, m)
      [] n = 64 -> CORK_SWAP_UINT64(e, m)

\* the store reaches every variable instead of the operand alone
AssignAll(m, a, u) == [c \in DOMAIN m |-> CAST(m[c].w, u)]

\* (lvalue) = value: the value is converted to the type of the variable
Assign(m, a, u) == [m EXCEPT ![a] = CAST(m[a].w, u)]

\* do { (u) = CORK_SWAP_UINTn(u); } while (0)
CORK_SWAP_IN_PLACE_UINT(n, a, m) == Assign(m, a, CORK_SWAP_UINT(n, EVar(a), m))

(***************************************************************************)
(* Directional conversions, as selected by the host endianness.            *)
(***************************************************************************)
Host == CppVal(cpp.ints, "CORK_HOST_ENDIANNESS")

\* the directional macros exist only when one of the two branches is taken
DirectionalDefined == Host = CORK_BIG_ENDIAN \/ Host = CORK_LITTLE_ENDIAN

CORK_UINT_BIG_TO_HOST(n, e, m) ==
    IF Host = CORK_BIG_ENDIAN THEN Eval(e, m) ELSE CORK_SWAP_UINT(n, e, m)

\* the two branches of the host test are exchanged
CORK_UINT_LITTLE_TO_HOST_Exchanged(n, e, m) ==
    IF Host = CORK_BIG_ENDIAN THEN Eval(e, m) ELSE CORK_SWAP_UINT(n, e, m)

CORK_UINT_LITTLE_TO_HOST(n, e, m) ==
    IF Host = CORK_BIG_ENDIAN THEN CORK_SWAP_UINT(n, e, m) ELSE Eval(e, m)

\* the in-place form swaps on the host where the value form does nothing
CORK_UINT_BIG_TO_HOST_IN_PLACE_Exchanged(n, a, m) ==
    IF Host = CORK_BIG_ENDIAN THEN CORK_SWAP_IN_PLACE_UINT(n, a, m) ELSE m

CORK_UINT_BIG_TO_HOST_IN_PLACE(n, a, m) ==
    IF Host = CORK_BIG_ENDIAN THEN m ELSE CORK_SWAP_IN_PLACE_UINT(n, a, m)

CORK_UINT_LITTLE_TO_HOST_IN_PLACE(n, a, m) ==
    IF Host = CORK_BIG_ENDIAN THEN CORK_SWAP_IN_PLACE_UINT(n, a, m) ELSE m

\* the alias names the conversion of the other endianness
CORK_UINT_HOST_TO_BIG_WrongAlias(n, e, m) == CORK_UINT_LITTLE_TO_HOST(n, e, m)

CORK_UINT_HOST_TO_BIG(n, e, m) == CORK_UINT_BIG_TO_HOST(n, e, m)

CORK_UINT_HOST_TO_LITTLE(n, e, m) == CORK_UINT_LITTLE_TO_HOST(n, e, m)

CORK_UINT_HOST_TO_BIG_IN_PLACE(n, a, m) == CORK_UINT_BIG_TO_HOST_IN_PLACE(n, a, m)

CORK_UINT_HOST_TO_LITTLE_IN_PLACE(n, a, m) == CORK_UINT_LITTLE_TO_HOST_IN_PLACE(n, a, m)

Directions == {"BIG_TO_HOST", "LITTLE_TO_HOST", "HOST_TO_BIG", "HOST_TO_LITTLE"}

\* the value-returning macro CORK_UINTn_<dir>
Convert(dir, n, e, m) ==
    CASE dir = "BIG_TO_HOST"    -> CORK_UINT_BIG_TO_HOST(n, e, m)
      [] dir = "LITTLE_TO_HOST" -> CORK_UINT_LITTLE_TO_HOST(n, e, m)
      [] dir = "HOST_TO_BIG"    -> CORK_UINT_HOST_TO_BIG(n, e, m)
      [] dir = "HOST_TO_LITTLE" -> CORK_UINT_HOST_TO_LITTLE(n, e, m)

\* the memory after the statement CORK_UINTn_<dir>_IN_PLACE(a);
ConvertInPlace(dir, n, a, m) ==
    CASE dir = "BIG_TO_HOST"    -> CORK_UINT_BIG_TO_HOST_IN_PLACE(n, a, m)
      [] dir = "LITTLE_TO_HOST" -> CORK_UINT_LITTLE_TO_HOST_IN_PLACE(n, a, m)
      [] dir = "HOST_TO_BIG"    -> CORK_UINT_HOST_TO_BIG_IN_PLACE(n, a, m)
      [] dir = "HOST_TO_LITTLE" -> CORK_UINT_HOST_TO_LITTLE_IN_PLACE(n, a, m)

(***************************************************************************)
(* The program: a build target, the preprocessed header, and a client      *)
(* with two variables that applies the macros.  The variable x is the      *)
(* operand; the in-place and the directional macros are applied to it at   *)
(* the width of its type, the value-returning swaps at every width and to  *)
(* compound expressions as well.                                           *)
(***************************************************************************)
Widths == {16, 32, 64}

Variables == {"x", "y"}

Targets == [os : {"linux", "macosx", "other"}, byte_order : {"big", "little", "pdp"}]

\* 0x12 in the chosen byte lanes, 0x00 in the others
Sparse(L) == UNION {{8 * l + 1, 8 * l + 4} : l \in L}

SparseValues(n) ==
    {Sparse(L) : L \in {S \in SUBSET (0 .. n \div 8 - 1) : Cardinality(S) <= MaxSetBytes}}

Examples(n) ==
    CASE n = 16 -> {FromBytes(<<18, 52>>), 0 .. 15}
      [] n = 32 -> {FromBytes(<<18, 52, 86, 120>>), FromBytes(<<222, 173, 190, 239>>), 0 .. 31}
      [] n = 64 -> {FromBytes(<<1, 35, 69, 103, 137, 171, 205, 239>>), 0 .. 63}

Values(n) == SparseValues(n) \cup Examples(n)

\* the second variable: 0, 1 and 0x10000
YValues == {{}, {0}, {16}}

ShiftAmounts == {8, 16}

\* the argument expressions the client writes
Arguments ==
    {EVar("x")} \cup
    {EShr("x", s) : s \in ShiftAmounts} \cup
    {EAdd("x", "y")} \cup
    {ECond("y", "x", "y"), ECond("y", "y", "x")}

NoCall ==
    [op |-> "none", inner |-> "none", inplace |-> FALSE, n |-> 0,
     e |-> EVar("x"), ret |-> Zero]

Init ==
    /\ target \in Targets
    /\ cpp = Preprocess(target)
    /\ mem \in {[a \in Variables |-> IF a = "x" THEN TV(n, v) ELSE TV(64, yv)] :
                    n \in Widths, v \in UNION {Values(w) : w \in Widths}, yv \in YValues}
    /\ mem["x"].b \in Values(mem["x"].w)
    /\ last = [call |-> NoCall, pre |-> mem]

\* r = CORK_SWAP_UINTn(e);
SwapValue(n, e) ==
    /\ ~cpp.error
    /\ last' = [call |-> [op |-> "SWAP", inner |-> "none", inplace |-> FALSE, n |-> n,
                          e |-> e, ret |-> CORK_SWAP_UINT(n, e, mem)],
                pre |-> mem]
    /\ UNCHANGED <<target, cpp, mem>>

\* CORK_SWAP_IN_PLACE_UINTn(a);
SwapInPlace(n, a) ==
    /\ ~cpp.error
    /\ mem[a].w = n
    /\ mem' = CORK_SWAP_IN_PLACE_UINT(n, a, mem)
    /\ last' = [call |-> [op |-> "SWAP", inner |-> "none", inplace |-> TRUE, n |-> n,
                          e |-> EVar(a), ret |-> Zero],
                pre |-> mem]
    /\ UNCHANGED <<target, cpp>>

\* r = CORK_UINTn_<dir>(a);
ConvertValue(dir, n, a) ==
    /\ ~cpp.error
    /\ mem[a].w = n
    /\ DirectionalDefined
    /\ last' = [call |-> [op |-> dir, inner |-> "none", inplace |-> FALSE, n |-> n,
                          e |-> EVar(a), ret |-> Convert(dir, n, EVar(a), mem)],
                pre |-> mem]
    /\ UNCHANGED <<target, cpp, mem>>

\* CORK_UINTn_<dir>_IN_PLACE(a);
ConvertVarInPlace(dir, n, a) ==
    /\ ~cpp.error
    /\ mem[a].w = n
    /\ DirectionalDefined
    /\ mem' = ConvertInPlace(dir, n, a, mem)
    /\ last' = [call |-> [op |-> dir, inner |-> "none", inplace |-> TRUE, n |-> n,
                          e |-> EVar(a), ret |-> Zero],
                pre |-> mem]
    /\ UNCHANGED <<target, cpp>>

\* r = CORK_SWAP_UINTn(CORK_SWAP_UINTn(x));
SwapTwice(n) ==
    /\ ~cpp.error
    /\ mem["x"].w = n
    /\ last' = [call |-> [op |-> "SWAP", inner |-> "SWAP", inplace |-> FALSE, n |-> n,
                          e |-> EVar("x"),
                          ret |-> CORK_SWAP_UINT(n, EVal(CORK_SWAP_UINT(n, EVar("x"), mem)), mem)],
                pre |-> mem]
    /\ UNCHANGED <<target, cpp, mem>>

Inverse(dir) ==
    CASE dir = "BIG_TO_HOST"    -> "HOST_TO_BIG"
      [] dir = "LITTLE_TO_HOST" -> "HOST_TO_LITTLE"
      [] dir = "HOST_TO_BIG"    -> "BIG_TO_HOST"
      [] dir = "HOST_TO_LITTLE" -> "LITTLE_TO_HOST"

\* r = CORK_UINTn_<dir>(CORK_UINTn_<inverse of dir>(x));
RoundTrip(dir, n) ==
    /\ ~cpp.error
    /\ mem["x"].w = n
    /\ DirectionalDefined
    /\ last' = [call |-> [op |-> dir, inner |-> Inverse(dir), inplace |-> FALSE, n |-> n,
                          e |-> EVar("x"),
                          ret |-> Convert(dir, n, EVal(Convert(Inverse(dir), n, EVar("x"), mem)), mem)],
                pre |-> mem]
    /\ UNCHANGED <<target, cpp, mem>>

Next ==
    \/ \E n \in Widths, e \in Arguments : SwapValue(n, e)
    \/ \E n \in Widths : SwapInPlace(n, "x")
    \/ \E dir \in Directions, n \in Widths : ConvertValue(dir, n, "x")
    \/ \E dir \in Directions, n \in Widths : ConvertVarInPlace(dir, n, "x")
    \/ \E n \in Widths : SwapTwice(n)
    \/ \E dir \in {"BIG_TO_HOST", "LITTLE_TO_HOST"}, n \in Widths : RoundTrip(dir, n)

Spec == Init /\ [][Next]_vars

(***************************************************************************)
(* Properties.                                                             *)
(***************************************************************************)
call == last.call

pre == last.pre

\* the call is a value-returning macro applied to a single variable
ValueOfVariable == ~call.inplace /\ call.inner = "none" /\ call.e.k = "var"

\* the endianness a directional macro names
Named(dir) == IF dir \in {"BIG_TO_HOST", "HOST_TO_BIG"} THEN "big" ELSE "little"

\* the value-returning macro that corresponds to the call, applied in memory m
ValueForm(c, m) ==
    IF c.op = "SWAP" THEN CORK_SWAP_UINT(c.n, c.e, m) ELSE Convert(c.op, c.n, c.e, m)

\* C1: the unconditional swap of an n-bit value returns the n-bit value whose
\* byte i is byte (n/8 - 1 - i) of the operand, for every byte index i.
C1_SwapReversesBytes ==
    (call.op = "SWAP" /\ ValueOfVariable /\ pre[call.e.a].w = call.n) =>
        /\ call.ret.b \subseteq 0 .. call.n - 1
        /\ \A i \in 0 .. call.n \div 8 - 1 :
               ByteOf(call.ret.b, i) = ByteOf(pre[call.e.a].b, call.n \div 8 - 1 - i)

C1_Witness ==
    /\ call.op = "SWAP" /\ ValueOfVariable /\ call.n = 32
    /\ pre["x"] = TV(32, FromBytes(<<18, 52, 86, 120>>))
    /\ call.ret.b = FromBytes(<<120, 86, 52, 18>>)

\* C2: a directional conversion of an n-bit value returns the value unchanged
\* when the named endianness is the host's, and its unconditional swap when
\* it is not.
C2_DirectionalResolution ==
    (call.op \in Directions /\ ValueOfVariable /\ pre[call.e.a].w = call.n) =>
        call.ret.b = IF Named(call.op) = target.byte_order
                     THEN pre[call.e.a].b
                     ELSE CORK_SWAP_UINT(call.n, call.e, pre).b

C2_Witness ==
    /\ call.op = "HOST_TO_BIG" /\ ValueOfVariable /\ call.n = 32
    /\ target.byte_order = "little"
    /\ pre["x"] = TV(32, FromBytes(<<222, 173, 190, 239>>))
    /\ call.ret.b = FromBytes(<<239, 190, 173, 222>>)

\* C3: preprocessing ends in an error on every build target whose byte order
\* is not established as big or little by the Linux or Mac OS X section.
C3_UndeterminedIsError ==
    ~(target.os \in {"linux", "macosx"} /\ target.byte_order \in {"big", "little"})
        => cpp.error

\* C4: converting from host to an endianness and back returns the value.
C4_RoundTrip ==
    (call.op \in {"BIG_TO_HOST", "LITTLE_TO_HOST"} /\ call.inner = Inverse(call.op)
        /\ ~call.inplace /\ pre["x"].w = call.n) =>
        call.ret.b = pre["x"].b

C4_Witness ==
    /\ call.op = "BIG_TO_HOST" /\ call.inner = "HOST_TO_BIG" /\ call.n = 16
    /\ target.byte_order = "little"
    /\ pre["x"] = TV(16, FromBytes(<<18, 52>>))
    /\ call.ret.b = FromBytes(<<18, 52>>)

\* C5: the unconditional swap applied twice returns the value.
C5_SwapInvolution ==
    (call.op = "SWAP" /\ call.inner = "SWAP" /\ ~call.inplace /\ pre["x"].w = call.n) =>
        call.ret.b = pre["x"].b

C5_Witness ==
    /\ call.op = "SWAP" /\ call.inner = "SWAP" /\ call.n = 64
    /\ pre["x"] = TV(64, FromBytes(<<1, 35, 69, 103, 137, 171, 205, 239>>))
    /\ call.ret.b = FromBytes(<<1, 35, 69, 103, 137, 171, 205, 239>>)

\* C6: after an in-place macro the operand holds the value the corresponding
\* value-returning macro returns for the operand's initial value.
C6_InPlaceAgreesWithValue ==
    call.inplace => mem[call.e.a].b = ValueForm(call, pre).b

C6_Witness ==
    /\ call.inplace /\ call.op = "BIG_TO_HOST" /\ call.n = 16
    /\ target.byte_order = "big"
    /\ pre["x"] = TV(16, FromBytes(<<18, 52>>))
    /\ mem["x"] = TV(16, FromBytes(<<18, 52>>))

\* C7: whenever the header preprocesses without error, the host and the other
\* endianness are defined, differ, are together big and little, and the name
\* strings agree with them.
C7_HostAndOtherCoverBoth ==
    ~cpp.error =>
        /\ {"CORK_HOST_ENDIANNESS", "CORK_OTHER_ENDIANNESS"} \subseteq DOMAIN cpp.ints
        /\ {"CORK_HOST_ENDIANNESS_NAME", "CORK_OTHER_ENDIANNESS_NAME"} \subseteq DOMAIN cpp.strs
        /\ cpp.ints["CORK_HOST_ENDIANNESS"] # cpp.ints["CORK_OTHER_ENDIANNESS"]
        /\ {cpp.ints["CORK_HOST_ENDIANNESS"], cpp.ints["CORK_OTHER_ENDIANNESS"]}
               = {CORK_BIG_ENDIAN, CORK_LITTLE_ENDIAN}
        /\ (cpp.strs["CORK_HOST_ENDIANNESS_NAME"] = "big")
               <=> (cpp.ints["CORK_HOST_ENDIANNESS"] = CORK_BIG_ENDIAN)
        /\ {cpp.strs["CORK_HOST_ENDIANNESS_NAME"], cpp.strs["CORK_OTHER_ENDIANNESS_NAME"]}
               = {"big", "little"}

\* C8: a value-returning macro leaves every variable as it was, and an
\* in-place macro writes no variable but its operand.
C8_OnlyInPlaceWritesOperand ==
    /\ (call.op # "none" /\ ~call.inplace) => mem = pre
    /\ (call.op # "none" /\ call.inplace) =>
           \A c \in Variables \ {call.e.a} : mem[c] = pre[c]

C8_Witness ==
    /\ call.op = "SWAP" /\ call.n = 16
    /\ pre["x"] = TV(16, FromBytes(<<18, 52>>))
    /\ pre["y"].b = {16}
    /\ \/ ValueOfVariable /\ call.ret.b = FromBytes(<<52, 18>>) /\ mem = pre
       \/ call.inplace /\ mem["x"].b = FromBytes(<<52, 18>>) /\ mem["y"] = pre["y"]

\* C9: the swap of a compound argument expression equals the swap of an n-bit
\* variable that holds the value of the expression.
C9_ExpressionArgument ==
    (call.op = "SWAP" /\ ~call.inplace /\ call.inner = "none") =>
        call.ret.b = CORK_SWAP_UINT(call.n, EVal(CAST(call.n, Eval(call.e, pre))), pre).b

\* C10: the 16- and 32-bit swaps of a variable wider than n bits depend only
\* on its low n bits, and the result lies in 0 .. 2^n - 1.
C10_WideOperandTruncated ==
    (call.op = "SWAP" /\ ValueOfVariable /\ call.n \in {16, 32}
        /\ pre[call.e.a].w > call.n) =>
        /\ call.ret.b \subseteq 0 .. call.n - 1
        /\ call.ret.b =
               CORK_SWAP_UINT(call.n,
                              EVal(TV(pre[call.e.a].w, pre[call.e.a].b \cap (0 .. call.n - 1))),
                              pre).b

C10_Witness ==
    /\ call.op = "SWAP" /\ ValueOfVariable /\ call.n = 16
    /\ pre["x"] = TV(32, FromBytes(<<18, 52, 86, 120>>))
    /\ call.ret.b = FromBytes(<<120, 86>>)

====
